---------------------------- MODULE Spec2Model ----------------------------
(***************************************************************************)
(* PermisCollecte: issuance of signed permit codes and their verification. *)
(*                                                                         *)
(* Text is a sequence of one-character strings, a Buffer is a sequence of   *)
(* byte values 0..255.  The server's handlers (src/server/routes.ts) are    *)
(* one action each; the QR service (src/server/services/qr-crypto.ts) is    *)
(* a set of operators.                                                      *)
(***************************************************************************)
EXTENDS Integers, Sequences, FiniteSets, TLC

VARIABLES
    now,        \* the server clock, milliseconds (Date.now())
    uuids,      \* how many identifiers gen_random_uuid() has handed out
    permits,    \* table permits (with the joined fisher): id -> row
    cards,      \* table cards: id -> row
    scanLogs,   \* table scan_logs, in insertion order
    signed,     \* every (message, signature) pair crypto.sign has produced
    request,    \* the request the server handled last
    response,   \* and the response it sent
    keys,       \* what QR_PRIVATE_KEY and QR_PUBLIC_KEY held when the process started
    codec,      \* a payload on its way through the encoding and back
    online,     \* navigator.onLine on the agent's device
    queue,      \* the device's local store of creations saved offline, oldest first
    mutation,   \* how the form's last submission ended
    accepted,   \* the idempotency keys whose submission the store has accepted
    sync,       \* who is inside a critical section of the queue, and each drain pass
    camera      \* the camera manager, the video elements and the streams handed out

serverVars == <<now, uuids, permits, cards, scanLogs, signed, request, response>>

\* What no handler of the server writes.
clientVars == <<online, queue, mutation, accepted>>

deviceVars == <<sync, camera>>

outside == <<keys, codec, clientVars, deviceVars>>

vars == <<serverVars, outside>>

---------------------------------------------------------------------------
(* Bounds of the model. *)

MaxTicks == 2
MaxPermits == 1
MaxScanLogs == 1

---------------------------------------------------------------------------
(* Text and bytes. *)

\* The printable ASCII characters, code 32 first ("GRAVE" stands for code 96).
Printable ==
    << " ", "!", "\"", "#", "$", "%", "&", "'", "(", ")", "*", "+", ",", "-", ".", "/",
       "0", "1", "2", "3", "4", "5", "6", "7", "8", "9", ":", ";", "<", "=", ">", "?",
       "@", "A", "B", "C", "D", "E", "F", "G", "H", "I", "J", "K", "L", "M", "N", "O",
       "P", "Q", "R", "S", "T", "U", "V", "W", "X", "Y", "Z", "[", "\\", "]", "^", "_",
       "GRAVE", "a", "b", "c", "d", "e", "f", "g", "h", "i", "j", "k", "l", "m", "n", "o",
       "p", "q", "r", "s", "t", "u", "v", "w", "x", "y", "z", "{", "|", "}", "~" >>

Range(s) == { s[i] : i \in DOMAIN s }

IndexIn(table, c) == CHOOSE i \in DOMAIN table : table[i] = c

\* U+FFFD, what decoding an invalid or non-ASCII byte gives.
Replacement == "\\uFFFD"

\* The code of each printable character.
CharCode == [ c \in Range(Printable) |-> 31 + IndexIn(Printable, c) ]

\* Buffer.from(text): the UTF-8 bytes of a text (the texts here are ASCII).
BufferFromText(text) == [ i \in DOMAIN text |-> CharCode[text[i]] ]

\* buffer.toString(): the text of UTF-8 bytes.
BufferToString(bytes) ==
    [ i \in DOMAIN bytes |->
        IF bytes[i] >= 32 /\ bytes[i] <= 126 THEN Printable[bytes[i] - 31] ELSE Replacement ]

Base64Alphabet ==
    << "A", "B", "C", "D", "E", "F", "G", "H", "I", "J", "K", "L", "M", "N", "O", "P",
       "Q", "R", "S", "T", "U", "V", "W", "X", "Y", "Z", "a", "b", "c", "d", "e", "f",
       "g", "h", "i", "j", "k", "l", "m", "n", "o", "p", "q", "r", "s", "t", "u", "v",
       "w", "x", "y", "z", "0", "1", "2", "3", "4", "5", "6", "7", "8", "9", "+", "/" >>

Base64Chars == Range(Base64Alphabet)

\* The six bits each character of the alphabet stands for.
Sextet == [ c \in Base64Chars |-> IndexIn(Base64Alphabet, c) - 1 ]

\* buffer.toString('base64'): three bytes give four characters, '=' pads the end.
RECURSIVE Base64Encode(_)
Base64Encode(bytes) ==
    IF Len(bytes) = 0 THEN << >>
    ELSE IF Len(bytes) = 1 THEN
        << Base64Alphabet[(bytes[1] \div 4) + 1],
           Base64Alphabet[((bytes[1] % 4) * 16) + 1], "=", "=" >>
    ELSE IF Len(bytes) = 2 THEN
        << Base64Alphabet[(bytes[1] \div 4) + 1],
           Base64Alphabet[((bytes[1] % 4) * 16) + (bytes[2] \div 16) + 1],
           Base64Alphabet[((bytes[2] % 16) * 4) + 1], "=" >>
    ELSE
        << Base64Alphabet[(bytes[1] \div 4) + 1],
           Base64Alphabet[((bytes[1] % 4) * 16) + (bytes[2] \div 16) + 1],
           Base64Alphabet[((bytes[2] % 16) * 4) + (bytes[3] \div 64) + 1],
           Base64Alphabet[(bytes[3] % 64) + 1] >>
        \o Base64Encode(SubSeq(bytes, 4, Len(bytes)))

\* The first index of text holding one of chars, 0 when there is none.
FirstIndex(text, chars) ==
    LET I == { i \in DOMAIN text : text[i] \in chars }
    IN  IF I = {} THEN 0 ELSE CHOOSE i \in I : \A j \in I : i <= j

\* What Node's base64 decoder reads: it stops at the first '=' and skips every
\* character outside the alphabet (a space, for one).
Base64Kept(text) ==
    LET stop == FirstIndex(text, {"="})
        body == SelectSeq(IF stop = 0 THEN text ELSE SubSeq(text, 1, stop - 1),
                          LAMBDA c : c \in Base64Chars)
    IN  [ i \in DOMAIN body |-> Sextet[body[i]] ]

\* Four sextets give three bytes; two or three left over give one or two, and
\* one left over gives none.
SextetsToBytes(s) ==
    [ k \in 1..((Len(s) * 3) \div 4) |->
        LET g == 4 * ((k - 1) \div 3)
            r == (k - 1) % 3
        IN  IF r = 0 THEN (s[g + 1] * 4) + (s[g + 2] \div 16)
            ELSE IF r = 1 THEN ((s[g + 2] % 16) * 16) + (s[g + 3] \div 4)
            ELSE ((s[g + 3] % 4) * 64) + s[g + 4] ]

\* Buffer.from(text, 'base64')
BufferFromBase64(text) == SextetsToBytes(Base64Kept(text))

---------------------------------------------------------------------------
(* JSON, as far as a QRPayload needs it. *)

Digit == << "0", "1", "2", "3", "4", "5", "6", "7", "8", "9" >>

DigitChars == Range(Digit)

\* The decimal text of a natural number.
RECURSIVE NumberToText(_)
NumberToText(n) ==
    IF n < 10 THEN << Digit[n + 1] >>
    ELSE NumberToText(n \div 10) \o << Digit[(n % 10) + 1] >>

\* A string literal written without escaping.
EscapeText_Plain(text) == text

\* A JSON string literal: the quote and the backslash are escaped.
RECURSIVE EscapeText(_)
EscapeText(text) ==
    IF Len(text) = 0 THEN << >>
    ELSE (IF text[1] \in {"\"", "\\"} THEN << "\\", text[1] >> ELSE << text[1] >>)
         \o EscapeText(Tail(text))

QuoteText(text) == << "\"" >> \o EscapeText(text) \o << "\"" >>

\* JSON.stringify of { id, ts, v }: the fields in insertion order, no whitespace.
JSONStringify(qrData) ==
    << "{", "\"", "i", "d", "\"", ":" >> \o QuoteText(qrData.id)
    \o << ",", "\"", "t", "s", "\"", ":" >> \o NumberToText(qrData.ts)
    \o << ",", "\"", "v", "\"", ":" >> \o NumberToText(qrData.v)
    \o << "}" >>

Failed == [ok |-> FALSE]

\* The string literal whose opening quote is at i - 1: its text and the index
\* after the closing quote.
RECURSIVE ParseStringBody(_, _, _)
ParseStringBody(text, i, acc) ==
    IF i > Len(text) THEN Failed
    ELSE IF text[i] = "\"" THEN [ok |-> TRUE, value |-> acc, next |-> i + 1]
    ELSE IF text[i] = "\\" THEN
        IF i + 1 <= Len(text) /\ text[i + 1] \in {"\"", "\\"}
        THEN ParseStringBody(text, i + 2, Append(acc, text[i + 1]))
        ELSE Failed
    ELSE ParseStringBody(text, i + 1, Append(acc, text[i]))

RECURSIVE ParseDigits(_, _, _)
ParseDigits(text, i, acc) ==
    IF i <= Len(text) /\ text[i] \in DigitChars
    THEN ParseDigits(text, i + 1, (acc * 10) + (IndexIn(Digit, text[i]) - 1))
    ELSE [ok |-> TRUE, value |-> acc, next |-> i]

\* A value: a string or a number without sign, fraction or exponent; a leading
\* zero ends the number, as in JSON.
ParseValue(text, i) ==
    IF i > Len(text) THEN Failed
    ELSE IF text[i] = "\"" THEN
        LET r == ParseStringBody(text, i + 1, << >>)
        IN  IF r.ok THEN [r EXCEPT !.value = [type |-> "string", value |-> r.value]] ELSE Failed
    ELSE IF text[i] = "0" THEN
        [ok |-> TRUE, value |-> [type |-> "number", value |-> 0], next |-> i + 1]
    ELSE IF text[i] \in DigitChars THEN
        LET r == ParseDigits(text, i, 0)
        IN  [r EXCEPT !.value = [type |-> "number", value |-> r.value]]
    ELSE Failed

\* The members of an object from index i, where a key's opening quote is due;
\* a repeated key keeps its last value.
RECURSIVE ParseMembers(_, _, _)
ParseMembers(text, i, acc) ==
    IF i > Len(text) \/ text[i] # "\"" THEN Failed
    ELSE
        LET k == ParseStringBody(text, i + 1, << >>)
        IN  IF ~k.ok \/ k.next > Len(text) \/ text[k.next] # ":" THEN Failed
            ELSE
                LET v == ParseValue(text, k.next + 1)
                IN  IF ~v.ok \/ v.next > Len(text) THEN Failed
                    ELSE
                        LET obj == (k.value :> v.value) @@ acc
                        IN  IF text[v.next] = "," THEN ParseMembers(text, v.next + 1, obj)
                            ELSE IF text[v.next] = "}" /\ v.next = Len(text)
                            THEN [ok |-> TRUE, value |-> obj]
                            ELSE Failed

\* JSON.parse of an object text: the object as a function from keys to values.
\* A text that is no such object throws (SyntaxError).
JSONParse(text) ==
    IF Len(text) < 2 \/ text[1] # "{" THEN Failed
    ELSE IF Len(text) = 2 /\ text[2] = "}" THEN [ok |-> TRUE, value |-> << >>]
    ELSE ParseMembers(text, 2, << >>)

---------------------------------------------------------------------------
(* URL and URLSearchParams, as the verify handler uses them. *)

Letters ==
    { "a", "b", "c", "d", "e", "f", "g", "h", "i", "j", "k", "l", "m", "n", "o", "p", "q",
      "r", "s", "t", "u", "v", "w", "x", "y", "z" }

HexDigit == << "0", "1", "2", "3", "4", "5", "6", "7", "8", "9", "A", "B", "C", "D", "E", "F" >>

\* text.split(sep)
RECURSIVE Split(_, _)
Split(text, sep) ==
    LET i == FirstIndex(text, {sep})
    IN  IF i = 0 THEN << text >>
        ELSE << SubSeq(text, 1, i - 1) >> \o Split(SubSeq(text, i + 1, Len(text)), sep)

\* The form-urlencoded decoding of a name or a value: '+' is a space, %XX is
\* the byte XX.
RECURSIVE FormDecode(_)
FormDecode(text) ==
    IF Len(text) = 0 THEN << >>
    ELSE IF text[1] = "+" THEN << " " >> \o FormDecode(Tail(text))
    ELSE IF text[1] = "%" /\ Len(text) >= 3
            /\ text[2] \in Range(HexDigit) /\ text[3] \in Range(HexDigit) THEN
        BufferToString(<< ((IndexIn(HexDigit, text[2]) - 1) * 16) + (IndexIn(HexDigit, text[3]) - 1) >>)
        \o FormDecode(SubSeq(text, 4, Len(text)))
    ELSE << text[1] >> \o FormDecode(Tail(text))

\* The name and value of one piece of a query: split at its first '='.
QueryPair(piece) ==
    LET i == FirstIndex(piece, {"="})
    IN  IF i = 0 THEN [name |-> FormDecode(piece), value |-> << >>]
        ELSE [name |-> FormDecode(SubSeq(piece, 1, i - 1)),
              value |-> FormDecode(SubSeq(piece, i + 1, Len(piece)))]

\* url.searchParams: the pairs of the query, in order; empty pieces are skipped.
SearchParams(search) ==
    LET pieces == SelectSeq(Split(search, "&"), LAMBDA piece : Len(piece) > 0)
    IN  [ i \in DOMAIN pieces |-> QueryPair(pieces[i]) ]

\* searchParams.get(name): the first value of that name, as a set of at most
\* one text (none stands for null).
SearchParamsGet(params, name) ==
    LET I == { i \in DOMAIN params : params[i].name = name }
    IN  IF I = {} THEN {} ELSE { params[CHOOSE i \in I : \A j \in I : i <= j].value }

\* The characters a host may not hold.
ForbiddenHostChars == { " ", "#", "/", "<", ">", "?", "@", "[", "\\", "]", "^", "|", "%", ":" }

\* new URL(text): protocol, hostname and query of an absolute URL, as a set of
\* at most one record (none: the constructor throws TypeError).  The scheme is
\* a letter followed by letters, digits, '+', '-' and '.', up to the first ':';
\* after "//" the host runs to the first '/', '?' or '#'; the query runs from
\* the first '?' to the first '#'.
NewURL(text) ==
    LET colon == FirstIndex(text, {":"})
        scheme == SubSeq(text, 1, colon - 1)
        rest == SubSeq(text, colon + 1, Len(text))
        slashes == Len(rest) >= 2 /\ rest[1] = "/" /\ rest[2] = "/"
        after == IF slashes THEN SubSeq(rest, 3, Len(rest)) ELSE rest
        hostEnd == FirstIndex(after, {"/", "?", "#"})
        host == IF ~slashes THEN << >>
                ELSE IF hostEnd = 0 THEN after ELSE SubSeq(after, 1, hostEnd - 1)
        hash == FirstIndex(after, {"#"})
        noHash == IF hash = 0 THEN after ELSE SubSeq(after, 1, hash - 1)
        mark == FirstIndex(noHash, {"?"})
        search == IF mark = 0 THEN << >> ELSE SubSeq(noHash, mark + 1, Len(noHash))
    IN  IF colon < 2 \/ text[1] \notin Letters
           \/ Range(scheme) \ (Letters \cup DigitChars \cup {"+", "-", "."}) # {}
           \/ Range(host) \cap ForbiddenHostChars # {}
        THEN {}
        ELSE { [protocol |-> scheme \o << ":" >>, hostname |-> host, search |-> search] }

---------------------------------------------------------------------------
(* The QR service: src/server/services/qr-crypto.ts *)

\* const maxAge = 24 * 60 * 60 * 1000
maxAge == 24 * 60 * 60 * 1000

\* The signatures crypto.sign may return in this model: the bytes 0x41
\* ("QQ==" in base64) and the bytes 0xFB 0xFF ("+/8=" in base64).
SignatureValues == { << 65 >>, << 251, 255 >> }

\* The object generateQRPayload builds for a permit at the current time.
QRData(permitId) == [id |-> permitId, ts |-> now, v |-> 1]

\* The bytes generateQRPayload signs: Buffer.from(JSON.stringify(qrData)).
QRMessage(permitId) == BufferFromText(JSONStringify(QRData(permitId)))

\* What generateQRPayload returns when crypto.sign gives signatureBytes.
GenerateQRPayload(permitId, signatureBytes) ==
    [payload |-> Base64Encode(QRMessage(permitId)),
     signature |-> Base64Encode(signatureBytes)]

\* crypto.verify under the public key: true of the pairs the private key
\* signed, and of no other pair.  With a PUBLIC_KEY that is no key it throws,
\* and the catch of verifyQRSignature returns null as "if (!isValid)" does.
CryptoVerify(payloadBuffer, signatureBuffer) ==
    /\ keys = "usable"
    /\ \E e \in signed : e.message = payloadBuffer /\ e.signature = signatureBuffer

\* qrData.ts as a number (none: the field is absent or no number, and the
\* subtraction gives NaN).
TsOf(qrData) ==
    IF << "t", "s" >> \in DOMAIN qrData /\ qrData[<< "t", "s" >>].type = "number"
    THEN { qrData[<< "t", "s" >>].value }
    ELSE {}

\* The freshness test with the limit itself excluded.
TooOld_Inclusive(qrData) == \E ts \in TsOf(qrData) : now - ts >= maxAge

\* Date.now() - qrData.ts > maxAge
TooOld(qrData) == \E ts \in TsOf(qrData) : now - ts > maxAge

\* verifyQRSignature without "if (!isValid) return null".
VerifyQRSignature_Unchecked(payload, signature) ==
    LET parsed == JSONParse(BufferToString(BufferFromBase64(payload)))
    IN  IF ~parsed.ok THEN {}
        ELSE IF TooOld(parsed.value) THEN {}
        ELSE { parsed.value }

\* verifyQRSignature: the parsed payload, as a set of at most one object (none
\* stands for null).
VerifyQRSignature(payload, signature) ==
    LET payloadBuffer == BufferFromBase64(payload)
        signatureBuffer == BufferFromBase64(signature)
        isValid == CryptoVerify(payloadBuffer, signatureBuffer)
        parsed == JSONParse(BufferToString(payloadBuffer))
    IN  IF ~isValid THEN {}
        ELSE IF ~parsed.ok THEN {}
        ELSE IF TooOld(parsed.value) THEN {}
        ELSE { parsed.value }

\* verifyQRSignature with JSON.parse ahead of crypto.verify.
VerifyQRSignatureCalls_ParseFirst(payload, signature) ==
    LET parsed == JSONParse(BufferToString(BufferFromBase64(payload)))
    IN  << "Buffer.from", "JSON.parse", "crypto.verify" >>
        \o (IF parsed.ok THEN << "Date.now" >> ELSE << >>)

\* The calls verifyQRSignature makes, in the order of its statements: the
\* body stops at the first return, and a throw goes to its catch.
VerifyQRSignatureCalls(payload, signature) ==
    << "Buffer.from", "crypto.verify" >>
    \o (IF ~CryptoVerify(BufferFromBase64(payload), BufferFromBase64(signature)) THEN << >>
        ELSE << "JSON.parse" >>
             \o (IF JSONParse(BufferToString(BufferFromBase64(payload))).ok
                 THEN << "Date.now" >> ELSE << >>))

---------------------------------------------------------------------------
(* The store: the tables of src/shared/schema.ts behind ./storage. *)

\* gen_random_uuid(): the n-th identifier.
Uuid(n) == << "a" >> \o NumberToText(n)

Serials == { "PF-2024-001", "PF-2024-002" }

\* date_expiration is free text: a date, or something that is no date.
DateTexts == { "1970-01-02", "bientot" }

TheFisher ==
    [id |-> << >>, nom |-> "Kouassi", prenoms |-> "Yao", dateNaissance |-> "1980-05-17",
     telephone |-> "0701020304", adresse |-> "BP 12", quartierVillage |-> "Vridi"]

\* storage.getPermit(id): the permit with its fisher and card joined, as a set
\* of at most one row (none stands for undefined).
GetPermit(id) ==
    IF id \notin DOMAIN permits THEN {}
    ELSE { [permit |-> permits[id],
            card |-> { cards[c] : c \in { c \in DOMAIN cards : cards[c].permitId = id } }] }

\* storage.getCardByPermitId(permitId)
GetCardByPermitId(permitId) ==
    { cards[c] : c \in { c \in DOMAIN cards : cards[c].permitId = permitId } }

\* The unique constraint on permits.num_serie.
SerialTaken(numSerie) == \E id \in DOMAIN permits : permits[id].numSerie = numSerie

\* A function without one key.
Without(f, k) == [ x \in DOMAIN f \ {k} |-> f[x] ]

---------------------------------------------------------------------------
(* The handlers: src/server/routes.ts *)

NoRequest == [endpoint |-> "none"]

NoResponse == [status |-> 0]

Reply(status, body) == [status |-> status, body |-> body]

\* new Date(text).getTime(), as a set of at most one instant (none: NaN).
NewDate(text) == IF text = "1970-01-02" THEN { 24 * 60 * 60 * 1000 } ELSE {}

\* const isExpired = expiration <= now
IsExpired(permit) == \E expiration \in NewDate(permit.dateExpiration) : expiration <= now

\* The permit object of the verify response.
PermitSummary(permit) ==
    [fisher |-> permit.fisher, numSerie |-> permit.numSerie, zonePeche |-> permit.zonePeche,
     dateExpiration |-> permit.dateExpiration, typePeche |-> permit.typePeche]

\* `peche://verify?d=${card.qrPayload}&s=${card.qrSignature}`
QRCodeText(qrPayload, qrSignature) ==
    << "p", "e", "c", "h", "e", ":", "/", "/", "v", "e", "r", "i", "f", "y", "?", "d", "=" >>
    \o qrPayload \o << "&", "s", "=" >> \o qrSignature

\* qrPayload.id as the key getPermit looks up (none: absent or no string).
IdOf(qrData) ==
    IF << "i", "d" >> \in DOMAIN qrData /\ qrData[<< "i", "d" >>].type = "string"
    THEN { qrData[<< "i", "d" >>].value }
    ELSE {}

\* The scan log row and the response for a permit that was found.
ScanResult(found) == IF IsExpired(found.permit) THEN "expired" ELSE "valid"

ScanLogRow_AlwaysValid(found) ==
    [cardId |-> { c.id : c \in found.card }, agentId |-> {},
     result |-> "valid", mode |-> "online"]

ScanLogRow(found) ==
    [cardId |-> { c.id : c \in found.card }, agentId |-> {},
     result |-> ScanResult(found), mode |-> "online"]

FoundReply(found) ==
    Reply(200, [result |-> ScanResult(found), permit |-> PermitSummary(found.permit),
                isExpired |-> IsExpired(found.permit),
                message |-> IF IsExpired(found.permit) THEN "Permit has expired"
                            ELSE "Valid permit"])

Caught == Reply(500, [message |-> "Failed to verify QR code"])

Outcome(reply, log, faults) == [response |-> reply, log |-> log, faults |-> faults]

\* The handler from "const payload" to "// Verify signature": the d and s
\* parameters, or the response for a missing one.
CodeOfParams(params) ==
    LET payload == SearchParamsGet(params, << "d" >>)
        signature == SearchParamsGet(params, << "s" >>)
    IN  IF payload \in {{}, {<< >>}} \/ signature \in {{}, {<< >>}} THEN
            [ok |-> FALSE, response |-> Reply(400, [message |-> "Missing QR code data"])]
        ELSE [ok |-> TRUE, payload |-> CHOOSE p \in payload : TRUE,
              signature |-> CHOOSE g \in signature : TRUE]

\* The handler after "new URL(qrData)": parsed is what the constructor gave.
CodeOfURL(parsed) ==
    IF parsed = {} THEN [ok |-> FALSE, response |-> Caught]
    ELSE
        LET url == CHOOSE u \in parsed : TRUE
        IN  IF url.protocol # << "p", "e", "c", "h", "e", ":" >>
               \/ url.hostname # << "v", "e", "r", "i", "f", "y" >> THEN
                [ok |-> FALSE, response |-> Reply(400, [message |-> "Invalid QR code format"])]
            ELSE CodeOfParams(SearchParams(url.search))

\* The handler up to "// Verify signature": the payload and the signature of
\* the scanned text, or the response that ends the call.
ExtractCode(qrData) == CodeOfURL(NewURL(qrData))

\* The handler from "if (!qrPayload)" on without "if (!permit)": reading a
\* field of the permit that is not there throws into the catch.
AfterSignature_NoNotFound(qrPayload, getPermitThrows, createScanLogThrows) ==
    LET found == UNION { GetPermit(id) : id \in UNION { IdOf(q) : q \in qrPayload } }
    IN  IF qrPayload = {} THEN
            Outcome(Reply(400, [message |-> "Invalid QR code signature", result |-> "invalid"]),
                    << >>, {})
        ELSE IF getPermitThrows THEN Outcome(Caught, << >>, {"getPermit"})
        ELSE IF found = {} THEN Outcome(Caught, << >>, {})
        ELSE IF createScanLogThrows THEN Outcome(Caught, << >>, {"createScanLog"})
        ELSE
            LET permit == CHOOSE f \in found : TRUE
            IN  Outcome(FoundReply(permit), << ScanLogRow(permit) >>, {})

\* The handler from "if (!qrPayload)" on: what it answers, the rows it adds
\* to scan_logs and the store calls that threw.
AfterSignature(qrPayload, getPermitThrows, createScanLogThrows) ==
    LET found == UNION { GetPermit(id) : id \in UNION { IdOf(q) : q \in qrPayload } }
    IN  IF qrPayload = {} THEN
            Outcome(Reply(400, [message |-> "Invalid QR code signature", result |-> "invalid"]),
                    << >>, {})
        ELSE IF getPermitThrows THEN Outcome(Caught, << >>, {"getPermit"})
        ELSE IF found = {} THEN
            Outcome(Reply(404, [message |-> "Permit not found", result |-> "invalid"]), << >>, {})
        ELSE IF createScanLogThrows THEN Outcome(Caught, << >>, {"createScanLog"})
        ELSE
            LET permit == CHOOSE f \in found : TRUE
            IN  Outcome(FoundReply(permit), << ScanLogRow(permit) >>, {})

\* The calls the handler makes from "if (!qrPayload)" on, in the order of its
\* statements.
AfterSignatureCalls(qrPayload, getPermitThrows) ==
    IF qrPayload = {} THEN << >>
    ELSE << "storage.getPermit" >>
         \o (IF getPermitThrows
                \/ UNION { GetPermit(id) : id \in UNION { IdOf(q) : q \in qrPayload } } = {}
             THEN << >>
             ELSE << "new Date", "storage.createScanLog" >>)

\* The calls of one run of the handler, in order.
ScanCalls(code, qrPayload, getPermitThrows) ==
    << "new URL" >>
    \o (IF ~code.ok THEN << >>
        ELSE VerifyQRSignatureCalls(code.payload, code.signature)
             \o AfterSignatureCalls(qrPayload, getPermitThrows))

---------------------------------------------------------------------------
(* What an agent may scan. *)

\* The code of every card issued so far, as the PDF endpoint prints it.
IssuedCodes ==
    { [qrPayload |-> Base64Encode(e.message), qrSignature |-> Base64Encode(e.signature)] :
        e \in signed }

IssuedTexts == { QRCodeText(c.qrPayload, c.qrSignature) : c \in IssuedCodes }

\* A text with one of its first two characters replaced by 'R'.
Tampered(text) == { [text EXCEPT ![i] = "R"] : i \in DOMAIN text \cap {1, 2} } \ {text}

\* Issued codes with one character of the payload or of the signature replaced,
\* and the payload of one code with the signature of another.
TamperedTexts ==
    UNION { { QRCodeText(p, c.qrSignature) : p \in Tampered(c.qrPayload) }
            \cup { QRCodeText(c.qrPayload, g) : g \in Tampered(c.qrSignature) }
            \cup { QRCodeText(c.qrPayload, d.qrSignature) : d \in IssuedCodes \ {c} } :
            c \in IssuedCodes }

\* Texts that are no code: no URL at all, another scheme, another action, and
\* a parameter absent or empty.
MalformedTexts ==
    { << "h", "e", "l", "l", "o" >>,
      << "h", "t", "t", "p", ":", "/", "/", "v", "e", "r", "i", "f", "y", "?",
         "d", "=", "Q", "Q", "=", "=", "&", "s", "=", "Q", "Q", "=", "=" >>,
      << "p", "e", "c", "h", "e", ":", "/", "/", "c", "h", "e", "c", "k", "?",
         "d", "=", "Q", "Q", "=", "=", "&", "s", "=", "Q", "Q", "=", "=" >>,
      << "p", "e", "c", "h", "e", ":", "/", "/", "v", "e", "r", "i", "f", "y", "?",
         "d", "=", "Q", "Q", "=", "=" >>,
      << "p", "e", "c", "h", "e", ":", "/", "/", "v", "e", "r", "i", "f", "y", "?",
         "d", "=", "&", "s", "=", "Q", "Q", "=", "=" >> }

ScanTexts == IssuedTexts \cup TamperedTexts \cup MalformedTexts

---------------------------------------------------------------------------
(* The state machine. *)

\* The server after registerRoutes, on empty tables.
ServerInit ==
    /\ now = 0
    /\ uuids = 0
    /\ permits = << >>
    /\ cards = << >>
    /\ scanLogs = << >>
    /\ signed = {}
    /\ request = NoRequest
    /\ response = NoResponse

NoCodec == [phase |-> "none"]

\* The drain passes that may run at once: the one started when connectivity
\* returns and the periodic one.
Passes == { "on reconnect", "periodic" }

\* Nobody is inside a critical section, and no pass has read or taken an entry.
NoSync == [inside |-> {}, seen |-> [p \in Passes |-> 0], taken |-> [p \in Passes |-> 0]]

\* The video elements of the page.
Videos == { "preview", "scanner" }

\* new CameraManager(): no stream, no video element; no stream acquired yet.
NoCamera ==
    [stream |-> 0, video |-> "none", facing |-> << >>, live |-> {},
     srcObject |-> [v \in Videos |-> 0], returned |-> [call |-> "none"]]

\* The device after the page has loaded: nothing saved, nothing submitted.
ClientInit ==
    /\ online = TRUE
    /\ queue = << >>
    /\ mutation = [state |-> "idle"]
    /\ accepted = {}
    /\ sync = NoSync
    /\ camera = NoCamera

\* The environment holds a key pair.
Init ==
    /\ ServerInit
    /\ keys = "usable"
    /\ codec = NoCodec
    /\ ClientInit

\* Time passes: a millisecond, or a whole freshness window.
TicksOf(t) == (t \div maxAge) + (t % maxAge)

\* The server takes one request at a time.
Idle == request = NoRequest

Tick ==
    /\ Idle
    /\ UNCHANGED outside
    /\ TicksOf(now) < MaxTicks
    /\ \E d \in {1, maxAge} : now' = now + d
    /\ UNCHANGED <<uuids, permits, cards, scanLogs, signed, request, response>>

\* The caller has the response.
Deliver ==
    /\ ~Idle
    /\ UNCHANGED outside
    /\ request' = NoRequest
    /\ response' = NoResponse
    /\ UNCHANGED <<now, uuids, permits, cards, scanLogs, signed>>

\* POST /api/permits with a body that JSON.parse or the schema rejects.
CreateRejected ==
    /\ Idle
    /\ UNCHANGED outside
    /\ \E kind \in {"unparsable", "invalid"} :
        /\ request' = [endpoint |-> "POST /api/permits", kind |-> kind, at |-> now]
        /\ response' = IF kind = "invalid"
                       THEN Reply(400, [message |-> "Validation error"])
                       ELSE Reply(500, [message |-> "Failed to create permit"])
    /\ UNCHANGED <<now, uuids, permits, cards, scanLogs, signed>>

\* The Authorization header of a request: absent, of another scheme, a bearer
\* token.
Authorizations ==
    { << >>, << "B", "a", "s", "i", "c", " ", "x" >>,
      << "B", "e", "a", "r", "e", "r", " ", "t" >> }

\* String.prototype.startsWith.
StartsWith(text, prefix) ==
    Len(text) >= Len(prefix) /\ SubSeq(text, 1, Len(prefix)) = prefix

\* requireAuth: the middleware's own answer, or none when it calls next().
\* No route is registered with it.
RequireAuth(authHeader) ==
    IF authHeader = << >> \/ ~StartsWith(authHeader, << "B", "e", "a", "r", "e", "r", " " >>)
    THEN { Reply(401, [message |-> "Authentication required"]) }
    ELSE {}

\* The request record of a creation with a body the schema accepts.
CreateRequest(numSerie, dateExpiration) ==
    [endpoint |-> "POST /api/permits", kind |-> "valid", numSerie |-> numSerie,
     dateExpiration |-> dateExpiration, at |-> now]

\* The handler of POST /api/permits on a body the schema accepts: createPermit,
\* generateQRPayload, createCard, each of which may throw (crypto.sign does
\* when PRIVATE_KEY is no key).  req is the request as the model records it.
CreateWith(numSerie, dateExpiration, signatureBytes, createCardThrows, req) ==
    IF SerialTaken(numSerie) THEN
        /\ request' = [req EXCEPT !.kind = "duplicate"]
        /\ response' = Reply(500, [message |-> "Failed to create permit"])
        /\ UNCHANGED <<now, uuids, permits, cards, scanLogs, signed>>
    ELSE
        /\ uuids + 3 <= 3 * MaxPermits
        /\ uuids' = uuids + 3
        /\ \E fisherId \in { Uuid(uuids + 1) }, permitId \in { Uuid(uuids + 2) },
              cardId \in { Uuid(uuids + 3) } :
           \E permit \in { [id |-> permitId, fisherId |-> fisherId, numSerie |-> numSerie,
                            dateExpiration |-> dateExpiration, typePeche |-> "artisanale",
                            zonePeche |-> "lagune",
                            fisher |-> [TheFisher EXCEPT !.id = fisherId]] },
              qr \in { GenerateQRPayload(permitId, signatureBytes) } :
           \E card \in { [id |-> cardId, permitId |-> permitId, qrPayload |-> qr.payload,
                          qrSignature |-> qr.signature, version |-> 1] } :
            /\ permits' = (permitId :> permit) @@ permits
            /\ signed' = IF keys # "usable" THEN signed
                         ELSE signed \cup { [message |-> QRMessage(permitId),
                                             signature |-> signatureBytes,
                                             qrData |-> QRData(permitId)] }
            /\ IF keys # "usable" THEN
                   /\ ~createCardThrows
                   /\ cards' = cards
                   /\ request' = [req EXCEPT !.kind = "crypto.sign throws"]
                   /\ response' = Reply(500, [message |-> "Failed to create permit"])
               ELSE IF createCardThrows THEN
                   /\ cards' = cards
                   /\ request' = [req EXCEPT !.kind = "createCard throws"]
                   /\ response' = Reply(500, [message |-> "Failed to create permit"])
               ELSE
                   /\ cards' = (cardId :> card) @@ cards
                   /\ request' = req
                   /\ response' = Reply(200, [permit |-> permit, card |-> card])
        /\ UNCHANGED <<now, scanLogs>>

\* POST /api/permits with a body the schema accepts.
CreatePermit ==
    /\ Idle
    /\ UNCHANGED outside
    /\ \E numSerie \in Serials, dateExpiration \in DateTexts,
          signatureBytes \in SignatureValues, createCardThrows \in BOOLEAN,
          authorization \in Authorizations :
        CreateWith(numSerie, dateExpiration, signatureBytes, createCardThrows,
                   CreateRequest(numSerie, dateExpiration)
                       @@ [authorization |-> authorization])

\* DELETE /api/permits/:id
DeletePermit ==
    /\ Idle
    /\ UNCHANGED outside
    /\ \E n \in 1..uuids, authorization \in Authorizations :
        LET id == Uuid(n)
        IN  /\ request' = [endpoint |-> "DELETE /api/permits/:id", id |-> id, at |-> now,
                           authorization |-> authorization]
            /\ IF id \in DOMAIN permits THEN
                   /\ permits' = Without(permits, id)
                   /\ cards' = [ c \in { c \in DOMAIN cards : cards[c].permitId # id } |-> cards[c] ]
                   /\ response' = Reply(200, [message |-> "Permit deleted successfully"])
               ELSE
                   /\ UNCHANGED <<permits, cards>>
                   /\ response' = Reply(404, [message |-> "Permit not found"])
    /\ UNCHANGED <<now, uuids, scanLogs, signed>>

\* GET /api/cards/:permitId/pdf: the text the card's QR code carries.
CardPdf ==
    /\ Idle
    /\ UNCHANGED outside
    /\ \E n \in 1..uuids :
        LET permitId == Uuid(n)
            card == GetCardByPermitId(permitId)
        IN  /\ request' = [endpoint |-> "GET /api/cards/:permitId/pdf", id |-> permitId, at |-> now]
            /\ response' =
                 IF GetPermit(permitId) = {} THEN Reply(404, [message |-> "Permit not found"])
                 ELSE IF card = {} THEN Reply(404, [message |-> "Card not found"])
                 ELSE LET c == CHOOSE x \in card : TRUE
                      IN  Reply(200, [qrPayload |-> QRCodeText(c.qrPayload, c.qrSignature)])
    /\ UNCHANGED <<now, uuids, permits, cards, scanLogs, signed>>

\* POST /api/scans/verify
ScanVerify_Consuming ==
    /\ Idle
    /\ UNCHANGED outside
    /\ \E id \in DOMAIN permits :
        /\ permits' = Without(permits, id)
        /\ request' = [endpoint |-> "POST /api/scans/verify", qrData |-> << >>,
                       at |-> now, faults |-> {}, calls |-> << >>]
        /\ response' = Caught
    /\ UNCHANGED <<now, uuids, cards, scanLogs, signed>>

ScanVerify ==
    /\ Idle
    /\ UNCHANGED outside
    /\ \E qrData \in ScanTexts :
        \E code \in { ExtractCode(qrData) } :
        \E qrPayload \in { IF code.ok THEN VerifyQRSignature(code.payload, code.signature)
                            ELSE {} } :
        \E getPermitThrows \in BOOLEAN, createScanLogThrows \in BOOLEAN :
        \E done \in { IF code.ok
                       THEN AfterSignature(qrPayload, getPermitThrows, createScanLogThrows)
                       ELSE Outcome(code.response, << >>, {}) } :
            /\ getPermitThrows => "getPermit" \in done.faults
            /\ createScanLogThrows => "createScanLog" \in done.faults
            /\ Len(scanLogs) + Len(done.log) <= MaxScanLogs
            /\ scanLogs' = scanLogs \o done.log
            /\ request' = [endpoint |-> "POST /api/scans/verify", qrData |-> qrData,
                           at |-> now, faults |-> done.faults,
                           calls |-> ScanCalls(code, qrPayload, getPermitThrows)]
            /\ response' = done.response
    /\ UNCHANGED <<now, uuids, permits, cards, signed>>

Next ==
    \/ Tick
    \/ CreateRejected
    \/ CreatePermit
    \/ DeletePermit
    \/ CardPdf
    \/ ScanVerify
    \/ Deliver

Spec == Init /\ [][Next]_vars

---------------------------------------------------------------------------
(* What a caller of the verify endpoint observes. *)

\* The freshness window of the QR service, in milliseconds (24 hours).
FreshnessWindowMs == 86400000

Variants == { "Valid", "Expired", "InvalidSignature", "RecordNotFound", "Stale" }

IsScan == request.endpoint = "POST /api/scans/verify"

\* The variant the response of the last scan stands for: the result field and,
\* for 'invalid', the message; "none" when the response carries no result.
Classification ==
    IF ~IsScan \/ "result" \notin DOMAIN response.body THEN "none"
    ELSE IF response.body.result = "valid" THEN "Valid"
    ELSE IF response.body.result = "expired" THEN "Expired"
    ELSE IF response.body.message = "Permit not found" THEN "RecordNotFound"
    ELSE IF response.body.message = "Invalid QR code signature" THEN "InvalidSignature"
    ELSE "none"

\* The payload and signature texts the handler takes from the scanned text.
ScannedCode == ExtractCode(request.qrData)

\* The issuances whose signed bytes and signature bytes are those of the
\* scanned code.
ScannedEntries ==
    IF ~IsScan \/ ~ScannedCode.ok THEN {}
    ELSE { e \in signed : /\ e.message = BufferFromBase64(ScannedCode.payload)
                          /\ e.signature = BufferFromBase64(ScannedCode.signature) }

AgeAtScan(e) == request.at - e.qrData.ts

\* C1: a scanned code whose payload bytes or signature bytes are not those of
\* one issuance is never answered Valid or Expired, and when it has the shape
\* of a code it is answered InvalidSignature.
C1_TamperedCodeRejected ==
    IsScan =>
        /\ Classification \in {"Valid", "Expired"} => ScannedEntries # {}
        /\ (ScannedCode.ok /\ ScannedEntries = {}) => Classification = "InvalidSignature"

\* C1 witness: an issued payload scanned with other signature bytes was
\* answered InvalidSignature.
C1_Witness ==
    /\ IsScan
    /\ request.qrData \in TamperedTexts
    /\ ScannedCode.ok
    /\ ScannedEntries = {}
    /\ \E e \in signed : e.message = BufferFromBase64(ScannedCode.payload)
    /\ Classification = "InvalidSignature"

\* C2: for the code text of a stored card, the handler hands the signature
\* check exactly the stored payload and signature, and inside the freshness
\* window the code passes the signature check.
C2_IssuedCodeReachesVerifierUnchanged ==
    IsScan =>
        \A c \in { cards[k] : k \in DOMAIN cards } :
            request.qrData = QRCodeText(c.qrPayload, c.qrSignature) =>
                /\ ScannedCode.ok
                /\ ScannedCode.payload = c.qrPayload
                /\ ScannedCode.signature = c.qrSignature
                /\ (\A e \in signed :
                        Base64Encode(e.message) = c.qrPayload => AgeAtScan(e) <= FreshnessWindowMs)
                   => Classification # "InvalidSignature"

\* C3: every verification ends in one of the five classifications, and a
\* malformed text ends in InvalidSignature.
C3_AlwaysClassified ==
    IsScan =>
        /\ Classification \in Variants
        /\ request.qrData \in MalformedTexts => Classification = "InvalidSignature"

\* C4: a validly signed payload fails the freshness check exactly when its age
\* at the scan is more than the window: it passes at the window itself.
C4_FreshnessBoundary ==
    IsScan =>
        \A e \in ScannedEntries :
            (Classification = "InvalidSignature") <=> (AgeAtScan(e) > FreshnessWindowMs)

\* C4 witness: a code as old as the window, to the millisecond, was answered
\* Valid or Expired.
C4_Witness ==
    /\ IsScan
    /\ \E e \in ScannedEntries : AgeAtScan(e) = FreshnessWindowMs
    /\ Classification \in {"Valid", "Expired"}

\* C5: a validly signed code older than the window is answered Stale, not
\* InvalidSignature.
C5_StaleDistinguished ==
    IsScan =>
        \A e \in ScannedEntries : AgeAtScan(e) > FreshnessWindowMs => Classification = "Stale"

\* C6: when the store calls succeed, a signed, fresh code of a stored permit is
\* answered Expired if the expiration instant is before the scan and Valid
\* otherwise, also when the two are equal.
C6_ExpiredExactlyWhenPast ==
    (IsScan /\ request.faults = {}) =>
        \A e \in ScannedEntries :
            (AgeAtScan(e) <= FreshnessWindowMs /\ e.qrData.id \in DOMAIN permits) =>
                Classification =
                    IF \E x \in NewDate(permits[e.qrData.id].dateExpiration) : x < request.at
                    THEN "Expired" ELSE "Valid"

\* C7: when the store calls succeed, the unmodified code of a stored permit that
\* expired before the scan is answered Expired, whatever the age of the code.
C7_ExpiredPermitScansExpired ==
    (IsScan /\ request.faults = {} /\ request.qrData \in IssuedTexts) =>
        \A e \in ScannedEntries :
            (/\ e.qrData.id \in DOMAIN permits
             /\ \E x \in NewDate(permits[e.qrData.id].dateExpiration) : x < request.at)
            => Classification = "Expired"

\* C8: a Valid or Expired answer carries the permit the store holds under the
\* code's identifier at that call, and a signed, fresh code whose identifier the
\* store does not hold at the lookup is answered RecordNotFound.
C8_ResultFromStoreAtLookup ==
    IsScan =>
        /\ Classification \in {"Valid", "Expired"} =>
            \E e \in ScannedEntries :
                /\ e.qrData.id \in DOMAIN permits
                /\ response.body.permit.numSerie = permits[e.qrData.id].numSerie
                /\ response.body.permit.dateExpiration = permits[e.qrData.id].dateExpiration
        /\ \A e \in ScannedEntries :
            (/\ AgeAtScan(e) <= FreshnessWindowMs
             /\ "getPermit" \notin request.faults
             /\ e.qrData.id \notin DOMAIN permits)
            => Classification = "RecordNotFound"

\* C8 witness: the code of a card that an earlier scan logged is answered
\* RecordNotFound after its permit was deleted.
C8_Witness ==
    /\ IsScan
    /\ Classification = "RecordNotFound"
    /\ \E e \in ScannedEntries, n \in 1..uuids :
        /\ e.qrData.id = Uuid(n)
        /\ e.qrData.id \notin DOMAIN permits
        /\ \E i \in DOMAIN scanLogs : scanLogs[i].cardId = { Uuid(n + 1) }

\* C9: every verification appends exactly one row to the scan log, and no step
\* changes or removes a row.
C9_EveryAttemptLogged ==
    [][/\ Len(scanLogs') >= Len(scanLogs)
       /\ SubSeq(scanLogs', 1, Len(scanLogs)) = scanLogs
       /\ (request'.endpoint = "POST /api/scans/verify" /\ request # request')
            => Len(scanLogs') = Len(scanLogs) + 1]_vars

\* C10: a verification whose scan log write failed is still answered Valid or
\* Expired with the permit summary.
C10_AuditFailureStillAnswers ==
    (IsScan /\ "createScanLog" \in request.faults) =>
        /\ Classification \in {"Valid", "Expired"}
        /\ "permit" \in DOMAIN response.body

\* C11: the permit a verification response carries holds the holder's name,
\* the serial number, the zone, the type and the expiration, and no other field
\* of the permit or of the holder's record.
C11_SummaryOnly ==
    (IsScan /\ "permit" \in DOMAIN response.body) =>
        /\ DOMAIN response.body.permit
            \subseteq {"fisher", "numSerie", "zonePeche", "typePeche", "dateExpiration"}
        /\ DOMAIN response.body.permit.fisher \subseteq {"nom", "prenoms"}

\* The order of the steps of a verification.
StepOrder ==
    << "new URL", "Buffer.from", "crypto.verify", "JSON.parse", "Date.now",
       "storage.getPermit", "new Date", "storage.createScanLog" >>

---------------------------------------------------------------------------
(* Codes of another layout under the same key: a release that issues
   version 2 payloads, or payloads without a timestamp, signs with
   QR_PRIVATE_KEY as this one does. *)

MaxForeign == 1

\* The JSON texts such a release signs for a permit.
ForeignPayloads(permitId) ==
    { [text |-> JSONStringify([id |-> permitId, ts |-> now, v |-> 2]),
       qrData |-> [id |-> permitId, ts |-> now, v |-> 2]],
      [text |-> << "{", "\"", "i", "d", "\"", ":" >> \o QuoteText(permitId) \o << "}" >>,
       qrData |-> [id |-> permitId]] }

\* crypto.sign under the same private key, outside generateQRPayload.
ForeignSign ==
    /\ Idle
    /\ UNCHANGED outside
    /\ keys = "usable"
    /\ Cardinality({ e \in signed : "foreign" \in DOMAIN e }) < MaxForeign
    /\ \E permitId \in DOMAIN permits, signatureBytes \in SignatureValues :
        \E p \in ForeignPayloads(permitId) :
            signed' = signed \cup { [message |-> BufferFromText(p.text),
                                     signature |-> signatureBytes,
                                     qrData |-> p.qrData, foreign |-> TRUE] }
    /\ UNCHANGED <<now, uuids, permits, cards, scanLogs, request, response>>

VersionNext == Next \/ ForeignSign

VersionSpec == Init /\ [][VersionNext]_vars

\* The object a signed message decodes to has the QRPayload layout id, ts, v
\* and the version this release issues.
KnownLayout(message) ==
    LET parsed == JSONParse(BufferToString(message))
    IN  /\ parsed.ok
        /\ DOMAIN parsed.value = { << "i", "d" >>, << "t", "s" >>, << "v" >> }
        /\ parsed.value[<< "i", "d" >>].type = "string"
        /\ parsed.value[<< "t", "s" >>].type = "number"
        /\ parsed.value[<< "v" >>] = [type |-> "number", value |-> 1]

\* C13: a signed payload of another layout or of an unrecognized version is
\* never answered Valid or Expired.
C13_UnknownLayoutRejected ==
    IsScan =>
        \A e \in ScannedEntries :
            ~KnownLayout(e.message) => Classification \notin {"Valid", "Expired"}

---------------------------------------------------------------------------
(* The payload encoding on its own: what generateQRPayload does to a payload
   and what verifyQRSignature does to get it back. *)

MaxIdLen == 2

\* Characters of an identifier: a letter, the two characters JSON escapes,
\* and two whose bytes give '+' and '/' in base64.
IdChars == { "a", "\"", "\\", "~", "?" }

RECURSIVE TextsUpTo(_, _)
TextsUpTo(chars, n) ==
    IF n = 0 THEN { << >> }
    ELSE LET shorter == TextsUpTo(chars, n - 1)
         IN  shorter \cup { Append(t, c) : t \in shorter, c \in chars }

\* Date.now() values: one to four digits, a whole day, and the largest.
Stamps == { 0, 7, 10, 105, 86400000, 2147483647 }

Versions == { 1, 2 }

Payloads == [id : TextsUpTo(IdChars, MaxIdLen), ts : Stamps, v : Versions]

\* Buffer.from(JSON.stringify(qrData)).toString('base64')
EncodePayload(qrData) == Base64Encode(BufferFromText(JSONStringify(qrData)))

\* JSON.parse(Buffer.from(payload, 'base64').toString())
DecodePayload(payload) == JSONParse(BufferToString(BufferFromBase64(payload)))

CodecInit ==
    /\ ServerInit
    /\ keys = "usable"
    /\ \E qrData \in Payloads : codec = [phase |-> "payload", qrData |-> qrData]
    /\ ClientInit

Encode ==
    /\ codec.phase = "payload"
    /\ codec' = [phase |-> "encoded", qrData |-> codec.qrData,
                 payload |-> EncodePayload(codec.qrData)]
    /\ UNCHANGED <<serverVars, keys, clientVars, deviceVars>>

Decode ==
    /\ codec.phase = "encoded"
    /\ codec' = [phase |-> "decoded", qrData |-> codec.qrData, payload |-> codec.payload,
                 parsed |-> DecodePayload(codec.payload)]
    /\ UNCHANGED <<serverVars, keys, clientVars, deviceVars>>

CodecNext == Encode \/ Decode

CodecSpec == CodecInit /\ [][CodecNext]_vars

\* C14: decoding the encoding of a payload gives an object with the same id,
\* ts and v, and nothing else.
C14_RoundTrip ==
    codec.phase = "decoded" =>
        /\ codec.parsed.ok
        /\ codec.parsed.value =
            (<< "i", "d" >> :> [type |-> "string", value |-> codec.qrData.id])
            @@ (<< "t", "s" >> :> [type |-> "number", value |-> codec.qrData.ts])
            @@ (<< "v" >> :> [type |-> "number", value |-> codec.qrData.v])

\* C14 witness: a payload whose identifier holds a quote and a backslash and
\* whose encoding ends in padding came back from the decoding.
C14_Witness ==
    /\ codec.phase = "decoded"
    /\ codec.parsed.ok
    /\ {"\"", "\\"} \subseteq Range(codec.qrData.id)
    /\ "=" \in Range(codec.payload)

---------------------------------------------------------------------------
(* Key material: what the process finds in its environment when it starts. *)

\* A process that runs found both QR_PRIVATE_KEY and QR_PUBLIC_KEY set ("if
\* (!process.env.QR_PRIVATE_KEY || !process.env.QR_PUBLIC_KEY) throw" ends
\* any other at import): they hold a key pair, or text that is no key.
KeyStates == { "usable", "malformed" }

KeyInit ==
    /\ ServerInit
    /\ keys \in KeyStates
    /\ codec = NoCodec
    /\ ClientInit

KeySpec == KeyInit /\ [][Next]_vars

\* C15: the key material never changes, and no creation request fails for
\* want of a usable key.
C15_NoRequestFailsOnKeys ==
    /\ [][keys' = keys]_vars
    /\ [](request.endpoint = "POST /api/permits" => request.kind # "crypto.sign throws")


-----------------------------------------------------------------------------
(* The agent's device: the permit form and the queue of creations saved     *)
(* while offline.                                                            *)

MaxQueue == 2

\* The attempts a queued creation is given before it is marked failed.
MaxAttempts == 2

\* The serial numbers the agent types into the form.
FormSerials == { "PF-2024-001" }

\* What the network does with one fetch.
Networks == { "ok", "request lost", "response lost" }

\* The idempotency key the device generates for its n-th saved creation.
KeyOf(n) == << "op", n >>

\* What fetch hands the caller when the request or its response is lost.
FetchRejects == [status |-> -1]

\* What the device receives for the exchange in flight.
Received == IF request.network = "ok" THEN response ELSE FetchRejects

\* What createPermitSchema, as the server runs it when the request arrives,
\* makes of a body: the form only sends what its own copy accepts, a body
\* saved on the device may be drained against a later one.
Bodies == { "valid", "invalid" }

\* offlineStorage.savePermit: the creation becomes a pending operation at
\* the end of the queue, under a fresh idempotency key.
Enqueue(q, numSerie, dateExpiration, body) ==
    Append(q, [key |-> KeyOf(Len(q) + 1), numSerie |-> numSerie,
               dateExpiration |-> dateExpiration, body |-> body,
               status |-> "pending", attemptCount |-> 0])

\* fetch('/api/permits', POST) from the device: the request reaches the
\* handler or is lost on the way.
Fetch(numSerie, dateExpiration, signatureBytes, createCardThrows, req) ==
    IF req.network = "request lost" THEN
        /\ request' = [req EXCEPT !.kind = "request lost"]
        /\ response' = NoResponse
        /\ UNCHANGED <<now, uuids, permits, cards, scanLogs, signed>>
    ELSE IF req.body = "invalid" THEN
        /\ request' = [req EXCEPT !.kind = "invalid"]
        /\ response' = Reply(400, [message |-> "Validation error"])
        /\ UNCHANGED <<now, uuids, permits, cards, scanLogs, signed>>
    ELSE
        CreateWith(numSerie, dateExpiration, signatureBytes, createCardThrows, req)

\* createPermitMutation: online, the form posts the creation and throws unless
\* the response is ok; offline, it saves the creation on the device.
SubmitForm ==
    /\ UNCHANGED <<deviceVars, keys, codec, online, accepted>>
    /\ \E numSerie \in FormSerials, dateExpiration \in DateTexts :
        IF online THEN
            /\ Idle
            /\ queue' = queue
            /\ \E signatureBytes \in SignatureValues, createCardThrows \in BOOLEAN,
                  network \in Networks :
                /\ Fetch(numSerie, dateExpiration, signatureBytes, createCardThrows,
                         [CreateRequest(numSerie, dateExpiration) EXCEPT !.kind = "valid"]
                             @@ [network |-> network, body |-> "valid"])
                /\ mutation' = [state |-> IF network = "ok" /\ response'.status = 200
                                          THEN "success" ELSE "error",
                                numSerie |-> numSerie, offline |-> FALSE]
        ELSE
            /\ Len(queue) < MaxQueue
            /\ \E body \in Bodies : queue' = Enqueue(queue, numSerie, dateExpiration, body)
            /\ mutation' = [state |-> "success", numSerie |-> numSerie, offline |-> TRUE]
            /\ UNCHANGED serverVars

\* The form's exchange is over.
FormDeliver ==
    /\ "key" \notin DOMAIN request
    /\ Deliver

\* window 'online' and 'offline': App records the new state, nothing more.
HandleOnline ==
    /\ ~online
    /\ online' = TRUE
    /\ UNCHANGED <<serverVars, deviceVars, keys, codec, queue, mutation, accepted>>

HandleOffline ==
    /\ online
    /\ online' = FALSE
    /\ UNCHANGED <<serverVars, deviceVars, keys, codec, queue, mutation, accepted>>

OldestPending_AnyPending(q) == { i \in DOMAIN q : q[i].status = "pending" }

\* The oldest pending operation of the queue, as a set of at most one index.
OldestPending(q) ==
    { i \in DOMAIN q : /\ q[i].status = "pending"
                       /\ \A j \in 1..(i - 1) : q[j].status # "pending" }

\* drain(), first half: the oldest pending operation goes in flight and is
\* posted with its idempotency key.
DrainSubmit ==
    /\ Idle
    /\ online
    /\ UNCHANGED <<deviceVars, keys, codec, online, mutation>>
    /\ \E i \in OldestPending(queue) :
        /\ queue' = [queue EXCEPT ![i].status = "in-flight"]
        /\ \E signatureBytes \in SignatureValues, createCardThrows \in BOOLEAN,
              network \in Networks :
            /\ Fetch(queue[i].numSerie, queue[i].dateExpiration, signatureBytes,
                     createCardThrows,
                     CreateRequest(queue[i].numSerie, queue[i].dateExpiration)
                         @@ [network |-> network, body |-> queue[i].body,
                             key |-> queue[i].key])
            /\ accepted' = IF permits' # permits THEN accepted \cup { queue[i].key }
                           ELSE accepted

\* A reply that says the store already holds this idempotency key.
IsDuplicateReply(reply) == reply.status = 409

Settled_RetryInvalid(op, reply) ==
    IF reply.status = 200 THEN [op EXCEPT !.status = "committed"]
    ELSE [op EXCEPT !.attemptCount = @ + 1,
                    !.status = IF op.attemptCount + 1 >= MaxAttempts
                               THEN "failed" ELSE "pending"]

Settled_FailAtOnce(op, reply) ==
    IF reply.status = 200 THEN [op EXCEPT !.status = "committed"]
    ELSE [op EXCEPT !.status = "failed"]

\* drain(), second half: what the reply makes of the operation.
Settled(op, reply) ==
    IF reply.status = 200 \/ IsDuplicateReply(reply) THEN
        [op EXCEPT !.status = "committed"]
    ELSE IF reply.status = 400 THEN
        [op EXCEPT !.status = "failed"]
    ELSE
        [op EXCEPT !.attemptCount = @ + 1,
                   !.status = IF op.attemptCount + 1 >= MaxAttempts
                              THEN "failed" ELSE "pending"]

DrainSettle ==
    /\ "key" \in DOMAIN request
    /\ \E i \in DOMAIN queue :
        /\ queue[i].key = request.key
        /\ queue[i].status = "in-flight"
        /\ queue' = [queue EXCEPT ![i] = Settled(queue[i], Received)]
    /\ request' = NoRequest
    /\ response' = NoResponse
    /\ UNCHANGED <<now, uuids, permits, cards, scanLogs, signed>>
    /\ UNCHANGED <<deviceVars, keys, codec, online, mutation, accepted>>

\* The device's process is killed while a drain is in flight and started
\* again: the reply is never read, the interrupted operation is pending.
Restart ==
    /\ "key" \in DOMAIN request
    /\ queue' = [ i \in DOMAIN queue |->
                    IF queue[i].status = "in-flight"
                    THEN [queue[i] EXCEPT !.status = "pending"] ELSE queue[i] ]
    /\ request' = NoRequest
    /\ response' = NoResponse
    /\ UNCHANGED <<now, uuids, permits, cards, scanLogs, signed>>
    /\ UNCHANGED <<deviceVars, keys, codec, online, mutation, accepted>>

QueueNext ==
    \/ SubmitForm
    \/ FormDeliver
    \/ HandleOnline
    \/ HandleOffline
    \/ DrainSubmit
    \/ DrainSettle
    \/ Restart

QueueSpec == Init /\ [][QueueNext]_vars

\* The runs that follow one saved creation to its end.
MaxSaved == 1

SubmitOnce ==
    /\ SubmitForm
    /\ Len(queue') <= MaxSaved

FairQueueNext ==
    \/ SubmitOnce
    \/ FormDeliver
    \/ HandleOnline
    \/ HandleOffline
    \/ DrainSubmit
    \/ DrainSettle
    \/ Restart

\* drain() runs whenever the device is online, and a reply is read unless the
\* process dies first.
FairQueueSpec ==
    /\ Init
    /\ [][FairQueueNext]_vars
    /\ SF_vars(DrainSubmit)
    /\ SF_vars(DrainSettle)
    /\ WF_vars(FormDeliver)


-----------------------------------------------------------------------------
(* Claims about the offline write queue.                                     *)

\* No fetch of the exchange in flight was lost.
GoodNetwork == Idle \/ "network" \notin DOMAIN request \/ request.network = "ok"

\* The records of the store that carry a serial number.
RecordsOf(numSerie) == { id \in DOMAIN permits : permits[id].numSerie = numSerie }

SavedOffline(n) ==
    \E i \in DOMAIN queue : queue[i].key = KeyOf(n) /\ queue[i].body = "valid"

Synchronised(n) ==
    \E i \in DOMAIN queue :
        /\ queue[i].key = KeyOf(n)
        /\ queue[i].status = "committed"
        /\ Cardinality(RecordsOf(queue[i].numSerie)) = 1

\* The serial number of a saved creation is held by a record that some other
\* submission created.
TakenByAnother(n) ==
    \E i \in DOMAIN queue :
        /\ queue[i].key = KeyOf(n)
        /\ KeyOf(n) \notin accepted
        /\ RecordsOf(queue[i].numSerie) # {}

\* C16: when connectivity returns for good and no fetch is lost, a creation
\* saved offline is eventually one record of the store under its serial number,
\* and its pending operation is eventually committed (unless another
\* submission took the serial number first).
C16_OfflineSaveEventuallySynchronised ==
    (<>[]online /\ []GoodNetwork) =>
        \A n \in 1..MaxSaved :
            (SavedOffline(n) ~> (Synchronised(n) \/ TakenByAnother(n)))


\* A step in which the create endpoint handles a submission under key k.
Resubmits(k) ==
    /\ Idle
    /\ "key" \in DOMAIN request'
    /\ request'.key = k
    /\ request'.kind # "request lost"

\* C17: a submission under an idempotency key the store has already accepted
\* creates no further record and is answered as a duplicate.
C17_ResubmissionAcknowledgedAsDuplicate ==
    [][\A k \in accepted :
          Resubmits(k) => (permits' = permits /\ IsDuplicateReply(response'))]_vars


\* The store has accepted the n-th saved creation and the device has not yet
\* read the reply.
AcceptedUnread(n) ==
    /\ "key" \in DOMAIN request
    /\ request.key = KeyOf(n)
    /\ KeyOf(n) \in accepted
    /\ response.status = 200

\* C18: when the device dies after the store accepted a creation and before it
\* recorded the outcome, then, back online with no fetch lost, the store holds
\* one record of it and the operation is eventually committed.
C18_InterruptedDrainEndsCommitted ==
    (<>[]online /\ []GoodNetwork) =>
        \A n \in 1..MaxSaved : (AcceptedUnread(n) ~> Synchronised(n))


\* The form's submission has just returned control to the agent.
FormReturns ==
    \/ mutation' # mutation
    \/ Idle /\ request' # request /\ "key" \notin DOMAIN request'

\* C19: when a submission of the form returns, the store holds a record of
\* the creation or the device has saved it as a pending operation.
C19_SubmissionAcceptedOrSaved ==
    [][FormReturns =>
          \/ \E id \in DOMAIN permits' : permits'[id].numSerie = mutation'.numSerie
          \/ /\ Len(queue') = Len(queue) + 1
             /\ queue'[Len(queue')].status = "pending"
             /\ queue'[Len(queue')].numSerie = mutation'.numSerie]_vars


-----------------------------------------------------------------------------
(* Claims about the answers of the create endpoint.                          *)

\* What the handler's catch sends for an exception that is no ZodError, a
\* failing store among them.
ServerFailureReply == Reply(500, [message |-> "Failed to create permit"])

\* C20: a creation rejected for a serial number the store already holds is
\* never answered with the reply a transient server failure gets.
C20_DuplicateDistinctFromFailure ==
    (request.endpoint = "POST /api/permits" /\ request.kind = "duplicate")
        => response # ServerFailureReply


\* C21: every permit of the store has its card, and a creation request that
\* was answered with a failure has left no record.
C21_CreateOrReject ==
    /\ \A id \in DOMAIN permits : \E c \in DOMAIN cards : cards[c].permitId = id
    /\ (request.endpoint = "POST /api/permits" /\ request.kind = "createCard throws")
           => RecordsOf(request.numSerie) = {}


\* A drain has submitted the operation at least once.
Submitted(op) == op.status # "pending" \/ op.attemptCount > 0 \/ op.key \in accepted

\* C22: of two operations of the queue, the one enqueued later has not been
\* submitted before the one enqueued earlier.
C22_SubmittedInEnqueueOrder ==
    \A i, j \in DOMAIN queue : (i < j /\ Submitted(queue[j])) => Submitted(queue[i])

\* Two operations are queued; the earlier one has been submitted and has
\* failed once, and the later one is in flight.
C22_Witness ==
    /\ Len(queue) = 2
    /\ queue[1].attemptCount > 0
    /\ queue[2].status = "in-flight"


\* The store's validation error for the i-th operation has reached the device.
RejectedAsInvalid(i) ==
    /\ queue[i].status = "in-flight"
    /\ "key" \in DOMAIN request
    /\ request.key = queue[i].key
    /\ Received.status = 400

AttemptsBounded ==
    \A i \in DOMAIN queue :
        /\ queue[i].attemptCount <= MaxAttempts
        /\ queue[i].attemptCount = MaxAttempts => queue[i].status = "failed"

\* The submission of the i-th operation has failed transiently: the fetch was
\* lost or the server answered with an error that is no validation error.
FailedTransiently(i) ==
    /\ queue[i].status = "in-flight"
    /\ "key" \in DOMAIN request
    /\ request.key = queue[i].key
    /\ Received.status \notin { 200, 400 }
    /\ ~IsDuplicateReply(Received)

\* A transient failure, once read, counts one attempt and leaves the operation
\* pending while attempts remain (an interrupted drain leaves it pending).
RetriedWhileAttemptsRemain ==
    \A i \in DOMAIN queue :
        (FailedTransiently(i) /\ queue'[i] # queue[i])
            => \/ queue'[i] = [queue[i] EXCEPT !.status = "pending"]
               \/ queue'[i] = [queue[i] EXCEPT
                                  !.attemptCount = @ + 1,
                                  !.status = IF queue[i].attemptCount + 1 < MaxAttempts
                                             THEN "pending" ELSE "failed"]

Saved(n) == \E i \in DOMAIN queue : queue[i].key = KeyOf(n)

Ended(n) ==
    \E i \in DOMAIN queue :
        queue[i].key = KeyOf(n) /\ queue[i].status \in { "committed", "failed" }

-----------------------------------------------------------------------------
(* enqueue and drain as steps under the queue's lock.                        *)

CanEnter_Unlocked(inside) == TRUE

\* The queue-wide lock: a critical section is entered only while nobody is
\* inside one.
CanEnter(inside) == inside = {}

\* What a submission can come back with: accepted, invalid, server error,
\* fetch rejected.
Outcomes == { [status |-> st] : st \in { 200, 400, 500, -1 } }

\* enqueue, first write: the entry is in the local store, not yet complete.
EnqueueBegin ==
    /\ CanEnter(sync.inside)
    /\ "enqueue" \notin sync.inside
    /\ Len(queue) < MaxQueue
    /\ \E numSerie \in FormSerials, dateExpiration \in DateTexts, body \in Bodies :
        queue' = [Enqueue(queue, numSerie, dateExpiration, body)
                      EXCEPT ![Len(queue) + 1].status = "half-written"]
    /\ sync' = [sync EXCEPT !.inside = @ \cup { "enqueue" }]
    /\ UNCHANGED <<serverVars, keys, codec, online, mutation, accepted, camera>>

\* enqueue, second write: the entry is complete and pending.
EnqueueEnd ==
    /\ "enqueue" \in sync.inside
    /\ queue' = [queue EXCEPT ![Len(queue)].status = "pending"]
    /\ sync' = [sync EXCEPT !.inside = @ \ { "enqueue" }]
    /\ UNCHANGED <<serverVars, keys, codec, online, mutation, accepted, camera>>

\* A drain pass reads the queue and finds its oldest pending entry.
PassRead(p) ==
    /\ CanEnter(sync.inside)
    /\ p \notin sync.inside
    /\ sync.taken[p] = 0
    /\ \E i \in OldestPending(queue) :
        sync' = [sync EXCEPT !.inside = @ \cup { p }, !.seen[p] = i]
    /\ UNCHANGED <<serverVars, keys, codec, clientVars, camera>>

\* The pass marks the entry it found in flight and goes to submit it.
PassTake(p) ==
    /\ p \in sync.inside
    /\ queue' = [queue EXCEPT ![sync.seen[p]].status = "in-flight"]
    /\ sync' = [sync EXCEPT !.inside = @ \ { p }, !.seen[p] = 0,
                            !.taken[p] = sync.seen[p]]
    /\ UNCHANGED <<serverVars, keys, codec, online, mutation, accepted, camera>>

\* The submission comes back and the pass records the outcome.
PassSettle(p) ==
    /\ CanEnter(sync.inside)
    /\ sync.taken[p] # 0
    /\ \E reply \in Outcomes :
        queue' = [queue EXCEPT ![sync.taken[p]] = Settled(@, reply)]
    /\ sync' = [sync EXCEPT !.taken[p] = 0]
    /\ UNCHANGED <<serverVars, keys, codec, online, mutation, accepted, camera>>

LockNext ==
    \/ EnqueueBegin
    \/ EnqueueEnd
    \/ \E p \in Passes : PassRead(p)
    \/ \E p \in Passes : PassTake(p)
    \/ \E p \in Passes : PassSettle(p)

LockSpec == Init /\ [][LockNext]_vars

\* C25: at most one of enqueue and the drain passes is inside a critical
\* section; a pass inside one sees no half-written operation; no operation is
\* in flight for two passes.
C25_EnqueueAndDrainExclusive ==
    /\ Cardinality(sync.inside) <= 1
    /\ (sync.inside \cap Passes # {})
           => \A i \in DOMAIN queue : queue[i].status # "half-written"
    /\ \A p, q \in Passes :
           (p # q /\ sync.taken[p] # 0) => sync.taken[p] # sync.taken[q]

\* enqueue is writing an operation while a drain pass has one in flight and
\* the other pass waits.
C25_Witness ==
    /\ "enqueue" \in sync.inside
    /\ \E i \in DOMAIN queue : queue[i].status = "half-written"
    /\ \E p \in Passes : sync.taken[p] # 0


-----------------------------------------------------------------------------
(* Claims about what a verification writes.                                  *)

\* The coarse result of a classification.
Coarse(classification) ==
    IF classification = "Valid" THEN "valid"
    ELSE IF classification = "Expired" THEN "expired"
    ELSE "invalid"

\* C26: an audit entry that a verification writes carries the coarse form of
\* the classification the same call returns, and mode online exactly when the
\* call reached the store.
C26_AuditEntryMatchesAnswer ==
    [][Len(scanLogs') > Len(scanLogs) =>
          /\ Len(scanLogs') = Len(scanLogs) + 1
          /\ request'.endpoint = "POST /api/scans/verify"
          /\ scanLogs'[Len(scanLogs')].result \in { "valid", "invalid", "expired" }
          /\ scanLogs'[Len(scanLogs')].result = Coarse(Classification')
          /\ scanLogs'[Len(scanLogs')].mode = "online"
                 <=> "getPermit" \notin request'.faults]_vars

\* A verification answered Expired and wrote its entry.
C26_Witness ==
    /\ Classification = "Expired"
    /\ scanLogs # << >>
    /\ scanLogs[Len(scanLogs)].result = "expired"


-----------------------------------------------------------------------------
(* Claims about who may change a permit.                                     *)

\* The endpoints of the model that create or delete a permit.
Mutating == { "POST /api/permits", "DELETE /api/permits/:id" }

\* C28: a request to create or delete a permit whose Authorization header is
\* no bearer token is answered 401 'Authentication required'.
C28_UnauthenticatedRefused ==
    (/\ request.endpoint \in Mutating
     /\ "authorization" \in DOMAIN request
     /\ RequireAuth(request.authorization) # {})
        => response \in RequireAuth(request.authorization)


-----------------------------------------------------------------------------
(* The camera manager of the device.  A stream is the number of its          *)
(* acquisition; camera.facing[s] is the facing mode of stream s, camera.live *)
(* the streams that still have a running track.                              *)

MaxStreams == 3

Modes == { "user", "environment" }

\* frame of every camera call
NotCamera == <<serverVars, keys, codec, clientVars, sync>>

\* navigator.mediaDevices.getUserMedia resolved: the manager state with a new
\* live stream of the given facing mode, not yet referenced.
Acquired(cam, facingMode) ==
    [cam EXCEPT !.facing = Append(@, facingMode), !.live = @ \cup { Len(cam.facing) + 1 }]

\* stopCamera(): stops the tracks of this.stream and forgets it, detaches and
\* forgets this.video.
Stopped(cam) ==
    [cam EXCEPT !.live = @ \ { cam.stream },
                !.stream = 0,
                !.srcObject = IF cam.video = "none" THEN @
                              ELSE [@ EXCEPT ![cam.video] = 0],
                !.video = "none"]

\* startCamera(videoElement, { facingMode }) up to its return: granted says
\* whether getUserMedia resolves, plays whether the element starts playing.
\* videoElement is "none" when the caller passes null.
Started(cam, videoElement, facingMode, granted, plays, call) ==
    IF ~granted THEN
        [cam EXCEPT !.returned = [call |-> call, value |-> "throws"]]
    ELSE
        LET got == Acquired(cam, facingMode)
            s == Len(got.facing)
        IN  IF videoElement = "none" THEN
                [got EXCEPT !.stream = s, !.video = "none",
                            !.returned = [call |-> call, value |-> "throws"]]
            ELSE
                [got EXCEPT !.stream = s, !.video = videoElement,
                            !.srcObject[videoElement] = s,
                            !.returned = IF plays
                                         THEN [call |-> call, value |-> "stream", stream |-> s]
                                         ELSE [call |-> call, value |-> "rejects"]]

\* The facing mode switchCamera asks for.
NewFacingMode(cam) ==
    IF cam.stream # 0 /\ cam.facing[cam.stream] = "user" THEN "environment" ELSE "user"

\* switchCamera(): stopCamera(), then startCamera(this.video, ...) with what
\* this.video is by then; whatever startCamera throws becomes null.
Switched(cam, granted, plays) ==
    IF cam.video = "none" THEN
        [cam EXCEPT !.returned = [call |-> "switchCamera", value |-> "null"]]
    ELSE
        LET after == Started(Stopped(cam), Stopped(cam).video, NewFacingMode(cam),
                             granted, plays, "switchCamera")
        IN  IF after.returned.value = "throws"
            THEN [after EXCEPT !.returned.value = "null"]
            ELSE after

RequestPermission ==
    /\ \E queryThrows, granted \in BOOLEAN :
        camera' =
            IF queryThrows /\ granted /\ Len(camera.facing) < MaxStreams
            THEN [Acquired(camera, "user") EXCEPT
                     !.live = camera.live,
                     !.returned = [call |-> "requestPermission", value |-> "true"]]
            ELSE [camera EXCEPT !.returned = [call |-> "requestPermission",
                                              value |-> IF granted /\ ~queryThrows
                                                        THEN "true" ELSE "false"]]
    /\ UNCHANGED NotCamera

StartCamera ==
    /\ Len(camera.facing) < MaxStreams
    /\ \E videoElement \in Videos, facingMode \in Modes, granted, plays \in BOOLEAN :
        camera' = Started(camera, videoElement, facingMode, granted, plays, "startCamera")
    /\ UNCHANGED NotCamera

StopCamera ==
    /\ camera' = [Stopped(camera) EXCEPT !.returned = [call |-> "stopCamera"]]
    /\ UNCHANGED NotCamera

SwitchCamera ==
    /\ Len(camera.facing) < MaxStreams
    /\ \E granted, plays \in BOOLEAN : camera' = Switched(camera, granted, plays)
    /\ UNCHANGED NotCamera

CameraNext ==
    \/ RequestPermission
    \/ StartCamera
    \/ StopCamera
    \/ SwitchCamera

CameraSpec == Init /\ [][CameraNext]_vars

\* A camera is running on a video element.
Running(cam) ==
    /\ cam.stream # 0
    /\ cam.stream \in cam.live
    /\ cam.video # "none"
    /\ cam.srcObject[cam.video] = cam.stream

\* C29: switchCamera on a running camera, when the device grants a new
\* stream, leaves a running stream of the opposite facing mode on the same
\* video element, and the manager never holds a stream without the video
\* element it is attached to.
C29_SwitchKeepsVideo ==
    /\ [](camera.stream # 0 =>
              (camera.video # "none" /\ camera.srcObject[camera.video] = camera.stream))
    /\ [][(Running(camera) /\ camera'.returned.call = "switchCamera"
                           /\ Len(camera'.facing) > Len(camera.facing)) =>
              /\ Running(camera')
              /\ camera'.video = camera.video
              /\ camera'.facing[camera'.stream] # camera.facing[camera.stream]]_vars

\* C30: no stream is live that the manager does not reference, so at most
\* one is live, and none is once stopCamera has returned.
C30_NoStreamLeftLive ==
    /\ camera.live \subseteq { camera.stream }
    /\ camera.returned.call = "stopCamera" => camera.live = {}

=============================================================================
